---- MODULE Spec2Model ----
(***************************************************************************)
(* Verification model of the sweep-line segment intersection package       *)
(* (cga/line_intersection: EventQueue, StatusStructure, find_intersections *)
(* and the primitive get_intersection) and of the monotone-chain hull      *)
(* construction (cga/convex_hulls: _upper_hull, _lower_hull).              *)
(*                                                                         *)
(* Numbers.  The program computes with Python floats.  The model computes  *)
(* with exact rationals <<n, d>> (d > 0, lowest terms; <<1, 0>> is +inf).  *)
(* All inputs lie on a grid of small integers whose y values are 0 or at   *)
(* least 3, where every float operation the program performs is exact and  *)
(* where  y - EPSILON  (EPSILON = 2^-52) rounds back to y or is absorbed   *)
(* by the next subtraction, so the rational value is the float value.      *)
(***************************************************************************)
EXTENDS Integers, Sequences, FiniteSets, TLC

VARIABLES
    pc,               \* position of find_intersections: "start" | "sweep" | "done"; "queue" and "status" in the runs of one structure
    segments,         \* find_intersections: the (normalised) segment list
    intersections,    \* find_intersections: the result list
    heap,             \* EventQueue.heap
    next_id,          \* EventQueue._next_id
    tree,             \* StatusStructure.tree
    current_sweep_y,  \* StatusStructure.current_sweep_y
    last_op,          \* the operation called last ("none" before the first call)
    ret,              \* what that call returned (None when it returned nothing)
    raised,           \* the exception that call raised ("" when none)
    enqueued,         \* history: every node ever added to the queue, in order
    dequeued,         \* history: every node dequeue has returned, in order
    interleaved,      \* history: an enqueue has followed a dequeue
    arg,              \* the argument of the StatusStructure operation called last
    vertices,         \* _upper_hull, _lower_hull: the sorted list of points
    chain,            \* _upper_hull, _lower_hull: the chain built so far (upper, lower)
    index             \* _upper_hull, _lower_hull: the loop variable i

vars == <<pc, segments, intersections, heap, next_id, tree, current_sweep_y,
          last_op, ret, raised, enqueued, dequeued, interleaved, arg,
          vertices, chain, index>>

(***************************************************************************)
(* Bounds                                                                  *)
(***************************************************************************)
MaxSegs == 2      \* longest input list drawn from the grid
MaxEnq == 4       \* enqueue calls in a run of the queue on its own
MaxNodes == 4     \* nodes of the tree in a run of the status structure on its own
MaxPoints == 4    \* longest list of points given to _upper_hull and _lower_hull

(***************************************************************************)
(* Python's None                                                           *)
(***************************************************************************)
None == [none |-> TRUE]

(***************************************************************************)
(* Exact rational arithmetic standing for float arithmetic                 *)
(***************************************************************************)
Abs(n) == IF n < 0 THEN -n ELSE n

RECURSIVE GCD(_, _)
GCD(a, b) == IF b = 0 THEN a ELSE GCD(b, a % b)

Rat(n, d) ==
    LET s == IF d < 0 THEN -1 ELSE 1
        g == GCD(Abs(n), Abs(d))
    IN  IF g = 0 THEN <<0, 1>> ELSE <<(s * n) \div g, (s * d) \div g>>

R(k) == <<k, 1>>
Inf == <<1, 0>>

RAdd(a, b) == Rat(a[1] * b[2] + b[1] * a[2], a[2] * b[2])
RSub(a, b) == Rat(a[1] * b[2] - b[1] * a[2], a[2] * b[2])
RMul(a, b) == Rat(a[1] * b[1], a[2] * b[2])
RDiv(a, b) == Rat(a[1] * b[2], a[2] * b[1])
RLt(a, b) == a[1] * b[2] < b[1] * a[2]
RLe(a, b) == a[1] * b[2] <= b[1] * a[2]
RAbs(a) == <<Abs(a[1]), a[2]>>
RMax(a, b) == IF RLt(a, b) THEN b ELSE a
RMin(a, b) == IF RLt(b, a) THEN b ELSE a

\* math.isclose(a, b): abs(a - b) <= 1e-09 * max(abs(a), abs(b)), abs_tol = 0
RelTolInv == 1000000000
isclose(a, b) ==
    LET diff == RAbs(RSub(a, b))
        big == RMax(RAbs(a), RAbs(b))
    IN  IF a = b THEN TRUE
        ELSE IF a[2] = 0 \/ b[2] = 0 THEN FALSE
        ELSE diff[1] * big[2] <= (big[1] * diff[2]) \div RelTolInv

(***************************************************************************)
(* cga/primitives/definitions.py                                           *)
(***************************************************************************)
Point(x, y) == [x |-> x, y |-> y]
Line(start, end) == [start |-> start, end |-> end]

\* Line.__eq__, generated by @dataclass: the fields compared in order
Line_eq(l1, l2) == l1.start = l2.start /\ l1.end = l2.end

\* Line.__hash__: the hash of the frozenset of the endpoint tuples, modelled
\* by that frozenset
Line_hash(l) == {<<l.start.x, l.start.y>>, <<l.end.x, l.end.y>>}

\* len(set(lines)): members are one element when hash and __eq__ agree
set_len(lines) ==
    Cardinality({CHOOSE j \in DOMAIN lines :
                    Line_hash(lines[j]) = Line_hash(lines[i]) /\ Line_eq(lines[j], lines[i])
                 : i \in DOMAIN lines})

\* a point / a segment with integer coordinates
Pt(x, y) == Point(R(x), R(y))
Seg(a, b, c, d) == Line(Pt(a, b), Pt(c, d))

(***************************************************************************)
(* cga/primitives/get_intersection.py                                      *)
(***************************************************************************)
\* lines 41-47: the point at parameter t, if t and u lie in [0, 1]
point_within(p1, p2, t, u) ==
    IF RLe(R(0), t) /\ RLe(t, R(1)) /\ RLe(R(0), u) /\ RLe(u, R(1))
    THEN Point(RAdd(p1.x, RMul(t, RSub(p2.x, p1.x))),
               RAdd(p1.y, RMul(t, RSub(p2.y, p1.y))))
    ELSE None

get_intersection(l1, l2) ==
    LET p1 == l1.start
        p2 == l2.end
        p3 == l2.start
        p4 == l2.end
        den == RSub(RMul(RSub(p2.x, p1.x), RSub(p4.y, p3.y)),
                    RMul(RSub(p2.y, p1.y), RSub(p4.x, p3.x)))
        t_num == RSub(RMul(RSub(p3.x, p1.x), RSub(p4.y, p3.y)),
                      RMul(RSub(p3.y, p1.y), RSub(p4.x, p3.x)))
        u_num == RSub(RMul(RSub(p3.x, p1.x), RSub(p2.y, p1.y)),
                      RMul(RSub(p3.y, p1.y), RSub(p2.x, p1.x)))
    IN  IF den = R(0) THEN None
        ELSE point_within(p1, p2, RDiv(t_num, den), RDiv(u_num, den))

(***************************************************************************)
(* cga/line_intersection/event_queue.py                                    *)
(***************************************************************************)
UPPER == 1
LOWER == 2
INTERIOR == 3
EventType == {UPPER, LOWER, INTERIOR}

Node(point, line, event_type, id) ==
    [point |-> point, line |-> line, event_type |-> event_type, id |-> id]

\* EventQueue.__init__: the queue is the pair (heap, _next_id)
EventQueue == [heap |-> <<>>, next_id |-> 0]

number_items_off_by_one(q) == Len(q.heap) - 1

number_items(q) == Len(q.heap)

\* the comparator with the secondary key reversed (highest x first)
has_higher_priority_x_reversed(child, parent) ==
    IF child.point.y # parent.point.y THEN RLt(parent.point.y, child.point.y)
    ELSE IF child.point.x # parent.point.x THEN RLt(parent.point.x, child.point.x)
    ELSE IF child.event_type # parent.event_type
         THEN child.event_type < parent.event_type
    ELSE child.id < parent.id

\* the comparator without the tertiary key (roles not compared)
has_higher_priority_no_role(child, parent) ==
    IF child.point.y # parent.point.y THEN RLt(parent.point.y, child.point.y)
    ELSE IF child.point.x # parent.point.x THEN RLt(child.point.x, parent.point.x)
    ELSE child.id < parent.id

has_higher_priority(child, parent) ==
    IF child.point.y # parent.point.y THEN RLt(parent.point.y, child.point.y)
    ELSE IF child.point.x # parent.point.x THEN RLt(child.point.x, parent.point.x)
    ELSE IF child.event_type # parent.event_type
         THEN child.event_type < parent.event_type
    ELSE child.id < parent.id

peek_point_last(q) == IF q.heap = <<>> THEN None ELSE q.heap[Len(q.heap)].point

peek_point(q) == IF q.heap = <<>> THEN None ELSE q.heap[1].point

Swap(h, i, j) == [h EXCEPT ![i] = h[j], ![j] = h[i]]

\* indices are the program's 0-based indices; h[i + 1] is heap[i]
RECURSIVE sift_up(_, _)
sift_up(h, c_index) ==
    IF c_index > 0
    THEN LET p_index == (c_index - 1) \div 2
         IN  IF has_higher_priority(h[c_index + 1], h[p_index + 1])
             THEN sift_up(Swap(h, c_index + 1, p_index + 1), p_index)
             ELSE h
    ELSE h

RECURSIVE sift_down(_, _)
sift_down(h, r_index) ==
    LET max_i == Len(h) - 1
        left_child == 2 * r_index + 1
        right_child == 2 * r_index + 2
        h1 == IF left_child <= max_i
                 /\ has_higher_priority(h[left_child + 1], h[r_index + 1])
              THEN left_child ELSE r_index
        highest == IF right_child <= max_i
                      /\ has_higher_priority(h[right_child + 1], h[h1 + 1])
                   THEN right_child ELSE h1
    IN  IF highest # r_index
        THEN sift_down(Swap(h, r_index + 1, highest + 1), highest)
        ELSE h

\* _add_item: the heap with the new node appended, and the incremented id
add_item(q, point, e_type, line) ==
    [heap |-> Append(q.heap, Node(point, line, e_type, q.next_id)),
     next_id |-> q.next_id + 1]

enqueue(q, point, e_type, line) ==
    LET a == add_item(q, point, e_type, line)
    IN  [heap |-> sift_up(a.heap, Len(a.heap) - 1), next_id |-> a.next_id]

\* dequeue answering an empty queue the way peek_point does
dequeue_none_on_empty(q) ==
    IF q.heap = <<>>
    THEN [heap |-> q.heap, next_id |-> q.next_id, ret |-> None, raised |-> ""]
    ELSE LET max_item == q.heap[1]
             n == Len(q.heap)
         IN  [heap |-> IF n = 1 THEN <<>>
                       ELSE sift_down([SubSeq(q.heap, 1, n - 1) EXCEPT ![1] = q.heap[n]], 0),
              next_id |-> q.next_id, ret |-> max_item, raised |-> ""]

\* dequeue: the queue after the call, the node returned, the exception raised
dequeue(q) ==
    IF q.heap = <<>>
    THEN [heap |-> q.heap, next_id |-> q.next_id, ret |-> None, raised |-> "IndexError"]
    ELSE LET max_item == q.heap[1]
             n == Len(q.heap)
         IN  [heap |-> IF n = 1 THEN <<>>
                       ELSE sift_down([SubSeq(q.heap, 1, n - 1) EXCEPT ![1] = q.heap[n]], 0),
              next_id |-> q.next_id, ret |-> max_item, raised |-> ""]

(***************************************************************************)
(* cga/line_intersection/status_tree.py                                    *)
(***************************************************************************)
TreeNode(line, height, right_child, left_child) ==
    [line |-> line, height |-> height,
     right_child |-> right_child, left_child |-> left_child]

sweep_intersect(line, sweep_y) ==
    LET ax == line.start.x
        ay == line.start.y
        bx == line.end.x
        by == line.end.y
        delta_y == RSub(by, ay)
        delta_x == RSub(bx, ax)
    IN  IF isclose(bx, ax) THEN ax
        ELSE IF isclose(delta_y, R(0)) THEN RMin(ax, bx)
        ELSE RAdd(ax, RMul(RSub(sweep_y, ay), RDiv(delta_x, delta_y)))

get_dx_dy(line) ==
    LET dx == RSub(line.end.x, line.start.x)
        dy == RSub(line.end.y, line.start.y)
    IN  IF dy # R(0) THEN RDiv(dx, dy) ELSE Inf

\* StatusStructure.__init__: the structure is the pair (tree, current_sweep_y)
StatusStructure == [tree |-> None, current_sweep_y |-> Inf]

compare_segments(s1, s2, sweep_y) ==
    IF s1 = s2 THEN 0
    ELSE IF isclose(sweep_intersect(s1, sweep_y), sweep_intersect(s2, sweep_y)) THEN 0
    ELSE IF RLt(get_dx_dy(s1), get_dx_dy(s2)) THEN -1
    ELSE 1

node_height(node) == IF node = None THEN 0 ELSE node.height

Max(a, b) == IF a > b THEN a ELSE b

balance_factor(node) == node_height(node.right_child) - node_height(node.left_child)

rotate_right(node) ==
    LET new_root == node.left_child
        sub_tree == new_root.right_child
        lowered == [node EXCEPT !.left_child = sub_tree,
                                !.height = 1 + Max(node_height(sub_tree),
                                                   node_height(node.right_child))]
    IN  [new_root EXCEPT !.right_child = lowered,
                         !.height = 1 + Max(node_height(new_root.left_child),
                                            node_height(lowered))]

rotate_left(node) ==
    LET new_root == node.right_child
        sub_tree == new_root.left_child
        lowered == [node EXCEPT !.right_child = sub_tree,
                                !.height = 1 + Max(node_height(node.left_child),
                                                   node_height(sub_tree))]
    IN  [new_root EXCEPT !.left_child = lowered,
                         !.height = 1 + Max(node_height(lowered),
                                            node_height(new_root.right_child))]

balance_node_no_rotation(node) == node

balance_node(node) ==
    LET balance == balance_factor(node)
    IN  IF balance < -1
        THEN IF balance_factor(node.left_child) <= 0
             THEN rotate_right(node)
             ELSE rotate_right([node EXCEPT !.left_child = rotate_left(node.left_child)])
        ELSE IF balance > 1
        THEN IF balance_factor(node.right_child) >= 0
             THEN rotate_left(node)
             ELSE rotate_left([node EXCEPT !.right_child = rotate_right(node.right_child)])
        ELSE node

RECURSIVE min_node(_)
min_node(node) == IF node.left_child # None THEN min_node(node.left_child) ELSE node

RECURSIVE max_node(_)
max_node(node) == IF node.right_child # None THEN max_node(node.right_child) ELSE node

with_height(node) ==
    [node EXCEPT !.height = 1 + Max(node_height(node.left_child),
                                    node_height(node.right_child))]

\* _insert_node: the pair (new subtree, is_intersecting)
RECURSIVE insert_node(_, _, _)
insert_node(node, line, sweep_y) ==
    IF node = None
    THEN [node |-> TreeNode(line, 1, None, None), is_intersecting |-> FALSE]
    ELSE LET order == compare_segments(line, node.line, sweep_y)
         IN  IF order = -1
             THEN LET r == insert_node(node.left_child, line, sweep_y)
                  IN  [node |-> balance_node(with_height([node EXCEPT !.left_child = r.node])),
                       is_intersecting |-> r.is_intersecting]
             ELSE LET r == insert_node(node.right_child, line, sweep_y)
                  IN  [node |-> balance_node(with_height([node EXCEPT !.right_child = r.node])),
                       is_intersecting |-> IF order = 1 THEN r.is_intersecting ELSE TRUE]

RECURSIVE delete_node(_, _, _)
delete_node(node, line, sweep_y) ==
    IF node = None THEN None
    ELSE LET order == compare_segments(line, node.line, sweep_y)
         IN  IF order = -1
             THEN balance_node(with_height(
                    [node EXCEPT !.left_child = delete_node(node.left_child, line, sweep_y)]))
             ELSE IF order = 1
             THEN balance_node(with_height(
                    [node EXCEPT !.right_child = delete_node(node.right_child, line, sweep_y)]))
             ELSE IF node.left_child = None THEN node.right_child
             ELSE IF node.right_child = None THEN node.left_child
             ELSE LET successor == min_node(node.right_child)
                  IN  balance_node(with_height(
                        [node EXCEPT !.line = successor.line,
                                     !.right_child = delete_node(node.right_child,
                                                                 successor.line, sweep_y)]))

\* StatusStructure.insert / delete / update_sweep_line on the pair
insert(status, line) ==
    [status EXCEPT !.tree = insert_node(status.tree, line, status.current_sweep_y).node]

\* the value insert returns
insert_returns(status, line) ==
    insert_node(status.tree, line, status.current_sweep_y).is_intersecting

delete(status, line) ==
    [status EXCEPT !.tree = delete_node(status.tree, line, status.current_sweep_y)]

update_sweep_line(status, sweep_y) == [status EXCEPT !.current_sweep_y = sweep_y]

\* find_neighbors: the pair <<left, right>>
RECURSIVE find_neighbors_from(_, _, _, _, _)
find_neighbors_from(current, left, right, line, sweep_y) ==
    IF current = None THEN <<left, right>>
    ELSE LET order == compare_segments(line, current.line, sweep_y)
         IN  IF order = 0
             THEN <<IF current.left_child # None
                    THEN max_node(current.left_child).line ELSE left,
                    IF current.right_child # None
                    THEN min_node(current.right_child).line ELSE right>>
             ELSE IF order = -1
             THEN find_neighbors_from(current.left_child, left, current.line, line, sweep_y)
             ELSE find_neighbors_from(current.right_child, current.line, right, line, sweep_y)

find_neighbors(status, line) ==
    find_neighbors_from(status.tree, None, None, line, status.current_sweep_y)

RECURSIVE find_neighbors_at_point_from(_, _, _, _, _)
find_neighbors_at_point_from(current, left, right, event_point, status) ==
    IF current = None THEN <<left, right>>
    ELSE LET seg_x == sweep_intersect(current.line, event_point.y)
         IN  IF isclose(seg_x, event_point.x)
             THEN find_neighbors(status, current.line)
             ELSE IF RLt(event_point.x, seg_x)
             THEN find_neighbors_at_point_from(current.left_child, left, current.line,
                                               event_point, status)
             ELSE find_neighbors_at_point_from(current.right_child, current.line, right,
                                               event_point, status)

find_neighbors_at_point(status, event_point) ==
    find_neighbors_at_point_from(status.tree, None, None, event_point, status)

\* current_sweep_y - EPSILON in floats, for the sweep heights of the grid
minus_epsilon(sweep_y) == sweep_y

RECURSIVE leftmost_from(_, _, _, _)
leftmost_from(group, i, leftmost_segment, sweep_y) ==
    IF i > Len(group) THEN leftmost_segment
    ELSE IF leftmost_segment = None
            \/ RLt(sweep_intersect(group[i], sweep_y),
                   sweep_intersect(leftmost_segment, sweep_y))
         THEN leftmost_from(group, i + 1, group[i], sweep_y)
         ELSE leftmost_from(group, i + 1, leftmost_segment, sweep_y)

get_leftmost_segment_of_group(status, group) ==
    IF group = <<>> THEN None
    ELSE leftmost_from(group, 1, None, minus_epsilon(status.current_sweep_y))

RECURSIVE rightmost_from(_, _, _, _)
rightmost_from(group, i, rightmost_segment, sweep_y) ==
    IF i > Len(group) THEN rightmost_segment
    ELSE IF rightmost_segment = None
            \/ RLt(sweep_intersect(rightmost_segment, sweep_y),
                   sweep_intersect(group[i], sweep_y))
         THEN rightmost_from(group, i + 1, group[i], sweep_y)
         ELSE rightmost_from(group, i + 1, rightmost_segment, sweep_y)

get_rightmost_of_group(status, group) ==
    IF group = <<>> THEN None
    ELSE rightmost_from(group, 1, None, minus_epsilon(status.current_sweep_y))

(***************************************************************************)
(* cga/line_intersection/find_intersections.py                             *)
(***************************************************************************)
normalize_line_y_only(line) ==
    IF RLt(line.start.y, line.end.y) THEN Line(line.end, line.start) ELSE line

normalize_line(line) ==
    IF RLt(line.start.y, line.end.y) THEN Line(line.end, line.start)
    ELSE IF line.start.y = line.end.y /\ RLt(line.end.x, line.start.x)
    THEN Line(line.end, line.start)
    ELSE line

RECURSIVE enqueue_endpoints(_, _, _, _)
enqueue_endpoints(queue, segs, i, e_type) ==
    IF i > Len(segs) THEN queue
    ELSE enqueue_endpoints(
            enqueue(queue,
                    IF e_type = UPPER THEN segs[i].start ELSE segs[i].end,
                    e_type, segs[i]),
            segs, i + 1, e_type)

add_upper_segment_points(queue, segs) ==
    enqueue_endpoints(enqueue_endpoints(queue, segs, 1, UPPER), segs, 1, LOWER)

\* "below the current event point": the test of _find_new_event
is_below_or_at(point, event) ==
    RLt(point.y, event.y) \/ (point.y = event.y /\ RLe(event.x, point.x))

is_below(point, event) ==
    RLt(point.y, event.y) \/ (point.y = event.y /\ RLt(event.x, point.x))

\* lines 61-65: enqueue the point for both segments if it is below the event
enqueue_if_below(queue, point, left_segment, right_segment, event) ==
    IF point # None /\ is_below(point, event)
    THEN enqueue(enqueue(queue, point, INTERIOR, left_segment),
                 point, INTERIOR, right_segment)
    ELSE queue

find_new_event(queue, left_segment, right_segment, event) ==
    enqueue_if_below(queue, get_intersection(left_segment, right_segment),
                     left_segment, right_segment, event)

\* the lines of the nodes of one role, in the order the nodes were dequeued
lines_of(current_event, e_type) ==
    LET sel == SelectSeq(current_event, LAMBDA n : n.event_type = e_type)
    IN  [i \in 1..Len(sel) |-> sel[i].line]

Range(f) == {f[i] : i \in DOMAIN f}

\* the orders in which iterating a Python set may yield its elements
IterationOrders(S) ==
    {f \in [1..Cardinality(S) -> S] : \A i, j \in DOMAIN f : i # j => f[i] # f[j]}

\* the test off by one: len(segment_union) >= 1
is_intersection_point_off_by_one(segment_union) == Cardinality(segment_union) >= 1

\* len(segment_union) > 1
is_intersection_point(segment_union) == Cardinality(segment_union) > 1

RECURSIVE delete_all(_, _, _)
delete_all(status, lines, i) ==
    IF i > Len(lines) THEN status
    ELSE delete_all(delete(status, lines[i]), lines, i + 1)

\* lines 110-111: if left: _find_new_event(queue, left, segment, event)
check_left(queue, left, segment, event) ==
    IF left # None THEN find_new_event(queue, left, segment, event) ELSE queue

\* lines 112-113: if right: _find_new_event(queue, segment, right, event)
check_right(queue, segment, right, event) ==
    IF right # None THEN find_new_event(queue, segment, right, event) ELSE queue

\* lines 109-113: test the inserted segment against its two neighbours
check_neighbors(queue, segment, neighbors, event) ==
    check_right(check_left(queue, neighbors[1], segment, event),
                segment, neighbors[2], event)

\* the loop over set(upper) | set(interior), visited in the given order
RECURSIVE insert_all(_, _, _, _, _)
inserted(status, queue, order, i, event) ==
    insert_all(status,
               check_neighbors(queue, order[i], find_neighbors(status, order[i]), event),
               order, i + 1, event)

insert_all(status, queue, order, i, event) ==
    IF i > Len(order) THEN [status |-> status, queue |-> queue]
    ELSE inserted(insert(status, order[i]), queue, order, i, event)

\* lines 118-121: no segment starts or continues at the event
check_at_point(queue, neighbors, event) ==
    IF neighbors[1] # None /\ neighbors[2] # None
    THEN find_new_event(queue, neighbors[1], neighbors[2], event)
    ELSE queue

\* lines 129-132 and 140-142: test an outermost segment against its outer neighbour
check_outer(queue, outermost, outer_neighbor, event) ==
    IF outermost # None /\ outer_neighbor # None
    THEN find_new_event(queue, outer_neighbor, outermost, event)
    ELSE queue

check_leftmost(status, queue, leftmost, event) ==
    check_outer(queue, leftmost, find_neighbors(status, leftmost)[1], event)

check_rightmost(status, queue, rightmost, event) ==
    check_outer(queue, rightmost, find_neighbors(status, rightmost)[2], event)

\* lines 115-142: the queue after the tests that follow the insertions
check_outer_neighbors(status, queue, upper, interior, event) ==
    IF upper = <<>> /\ interior = <<>>
    THEN check_at_point(queue, find_neighbors_at_point(status, event), event)
    ELSE check_rightmost(
            status,
            check_leftmost(status, queue,
                           get_leftmost_segment_of_group(status, upper \o interior), event),
            get_rightmost_of_group(status, upper \o interior),
            event)

\* lines 92-96: the event is reported when more than one segment is involved
found_at(event, upper, lower, interior) ==
    IF is_intersection_point(Range(upper) \cup Range(lower) \cup Range(interior))
    THEN <<event>> ELSE <<>>

\* lines 115-144, w being the status and queue the insertions left
handled(w, event, upper, lower, interior) ==
    [intersections |-> found_at(event, upper, lower, interior),
     status |-> w.status,
     queue |-> check_outer_neighbors(w.status, w.queue, upper, interior, event)]

\* lines 92-144 on the three lists U(p), L(p), C(p)
handle_lists(event, upper, lower, interior, status, queue, order) ==
    handled(insert_all(delete_all(status, interior \o lower, 1), queue, order, 1, event),
            event, upper, lower, interior)

\* _handle_event_point: the points found, and the status and queue it leaves
handle_event_point(event, current_event, status, queue, order) ==
    handle_lists(event,
                 lines_of(current_event, UPPER),
                 lines_of(current_event, LOWER),
                 lines_of(current_event, INTERIOR),
                 status, queue, order)

\* while queue.peek_point() == event.point: current_events.append(queue.dequeue())
RECURSIVE drain(_, _, _)
drain(queue, current_events, point) ==
    IF peek_point(queue) = point
    THEN LET d == dequeue(queue)
         IN  drain([heap |-> d.heap, next_id |-> d.next_id],
                   Append(current_events, d.ret), point)
    ELSE [queue |-> queue, current_events |-> current_events]

(***************************************************************************)
(* Inputs of find_intersections                                            *)
(***************************************************************************)
GridX == {0, 10}
GridY == {0, 5, 10}
GridPoints == {Pt(x, y) : x \in GridX, y \in GridY}
\* every directed segment of the grid, the zero-length ones included
GridSegments == {Line(a, b) : a, b \in GridPoints}

CrossingPair == <<Seg(0, 0, 10, 10), Seg(0, 10, 10, 0)>>
SharedUpperPair == <<Seg(5, 10, 0, 0), Seg(5, 10, 10, 0)>>
ConcurrentTriple == <<Seg(0, 5, 10, 5), Seg(5, 0, 5, 10), Seg(0, 0, 10, 10)>>
VerticalHorizontalPair == <<Seg(3, 0, 3, 10), Seg(0, 5, 10, 5)>>
\* two verticals and a slanted segment that shares an endpoint with each
SharedLowerTriple == <<Seg(0, 5, 0, 0), Seg(10, 5, 0, 0), Seg(10, 5, 10, 0)>>
Reverse(s) == [i \in 1..Len(s) |-> s[Len(s) + 1 - i]]

Scenarios == {CrossingPair, SharedUpperPair, Reverse(SharedUpperPair),
              ConcurrentTriple, VerticalHorizontalPair, SharedLowerTriple}

Inputs == Scenarios \cup UNION {[1..n -> GridSegments] : n \in 0..MaxSegs}

(***************************************************************************)
(* Specification Spec: one call of find_intersections                      *)
(***************************************************************************)
QueueIdle == /\ last_op = "none" /\ ret = None /\ raised = ""
             /\ enqueued = <<>> /\ dequeued = <<>> /\ interleaved = FALSE
             /\ arg = None

\* no hull construction is running
HullIdle == vertices = <<>> /\ chain = <<>> /\ index = 0

Init ==
    /\ pc = "start"
    /\ segments \in Inputs
    /\ intersections = <<>>
    /\ heap = <<>> /\ next_id = 0
    /\ tree = None /\ current_sweep_y = Inf
    /\ QueueIdle
    /\ HullIdle

\* lines 154-164: normalise the segments, fill the queue, create the status
Start ==
    /\ pc = "start"
    /\ LET segs == [i \in 1..Len(segments) |-> normalize_line(segments[i])]
           queue == add_upper_segment_points(EventQueue, segs)
       IN  /\ segments' = segs
           /\ heap' = queue.heap
           /\ next_id' = queue.next_id
    /\ tree' = StatusStructure.tree
    /\ current_sweep_y' = StatusStructure.current_sweep_y
    /\ pc' = "sweep"
    /\ UNCHANGED <<vertices, chain, index, intersections, last_op, ret, raised, enqueued, dequeued, interleaved,
                   arg>>

\* lines 165-180: one iteration of the loop over the queue
SweepStep ==
    /\ pc = "sweep"
    /\ number_items([heap |-> heap, next_id |-> next_id]) > 0
    /\ \E event \in {dequeue([heap |-> heap, next_id |-> next_id])} :
       \E dr \in {drain([heap |-> event.heap, next_id |-> event.next_id],
                        <<event.ret>>, event.ret.point)} :
       \E order \in IterationOrders(Range(lines_of(dr.current_events, UPPER))
                                       \cup Range(lines_of(dr.current_events, INTERIOR))) :
       \E h \in {handle_event_point(
                    event.ret.point, dr.current_events,
                    update_sweep_line([tree |-> tree, current_sweep_y |-> current_sweep_y],
                                      event.ret.point.y),
                    dr.queue, order)} :
          /\ intersections' = intersections \o h.intersections
          /\ heap' = h.queue.heap
          /\ next_id' = h.queue.next_id
          /\ tree' = h.status.tree
          /\ current_sweep_y' = h.status.current_sweep_y
          /\ dequeued' = dequeued \o dr.current_events
    /\ UNCHANGED <<vertices, chain, index, pc, segments, last_op, ret, raised, enqueued, interleaved, arg>>

\* line 182: the queue is empty, the list is returned
Return ==
    /\ pc = "sweep"
    /\ number_items([heap |-> heap, next_id |-> next_id]) = 0
    /\ pc' = "done"
    /\ UNCHANGED <<vertices, chain, index, segments, intersections, heap, next_id, tree, current_sweep_y,
                   last_op, ret, raised, enqueued, dequeued, interleaved, arg>>

Next == Start \/ SweepStep \/ Return

Spec == Init /\ [][Next]_vars

\* Start can run exactly when the call is at its first statement, SweepStep
\* exactly when the call is in its loop and the queue is not empty (their
\* guards; the rest of each is a total computation)
StartEnabled == pc = "start"
SweepStepEnabled == pc = "sweep" /\ number_items([heap |-> heap, next_id |-> next_id]) > 0

\* under [Next]_vars, the step that leaves "start" is Start, and a step that
\* changes the state and stays in the loop is a SweepStep
StartTaken == pc = "start" /\ pc' = "sweep"
SweepStepTaken == pc = "sweep" /\ pc' = "sweep"

\* weak fairness of Start and of SweepStep, with the enabling condition and
\* the occurrence of the step written out
StartFair == []<>(~StartEnabled) \/ []<><<StartTaken>>_vars
SweepStepFair == []<>(~SweepStepEnabled) \/ []<><<SweepStepTaken>>_vars

\* find_intersections is one sequential call: while a statement of it can
\* run, it does run
FairSpec == Init /\ [][Next]_vars /\ StartFair /\ SweepStepFair /\ WF_vars(Return)

(***************************************************************************)
(* Specification SpecQueue: an EventQueue driven by arbitrary calls        *)
(***************************************************************************)
QueuePoints == {Pt(0, 0), Pt(5, 0), Pt(0, 5)}
QueueLines == {Seg(0, 5, 5, 0)}
\* the events offered to enqueue: every role at one point, fewer at the others
QueueEvents == {<<Pt(0, 0), UPPER>>, <<Pt(0, 0), LOWER>>, <<Pt(0, 0), INTERIOR>>,
                <<Pt(5, 0), UPPER>>, <<Pt(5, 0), INTERIOR>>, <<Pt(0, 5), INTERIOR>>}

QueueInit ==
    /\ pc = "queue"
    /\ segments = <<>>
    /\ intersections = <<>>
    /\ heap = EventQueue.heap /\ next_id = EventQueue.next_id
    /\ tree = None /\ current_sweep_y = Inf
    /\ QueueIdle
    /\ HullIdle

CallEnqueue ==
    /\ next_id < MaxEnq
    /\ \E e \in QueueEvents, line \in QueueLines :
          LET q == enqueue([heap |-> heap, next_id |-> next_id], e[1], e[2], line)
          IN  /\ heap' = q.heap
              /\ next_id' = q.next_id
              /\ enqueued' = Append(enqueued, Node(e[1], line, e[2], next_id))
    /\ last_op' = "enqueue" /\ ret' = None /\ raised' = ""
    /\ interleaved' = (interleaved \/ dequeued # <<>>)
    /\ UNCHANGED <<vertices, chain, index, pc, segments, intersections, tree, current_sweep_y, dequeued, arg>>

CallDequeue ==
    /\ LET d == dequeue([heap |-> heap, next_id |-> next_id])
       IN  /\ heap' = d.heap
           /\ next_id' = d.next_id
           /\ ret' = d.ret
           /\ raised' = d.raised
           /\ dequeued' = IF d.ret # None THEN Append(dequeued, d.ret) ELSE dequeued
    /\ last_op' = "dequeue"
    /\ UNCHANGED <<vertices, chain, index, pc, segments, intersections, tree, current_sweep_y, enqueued,
                   interleaved, arg>>

CallPeek ==
    /\ ret' = peek_point([heap |-> heap, next_id |-> next_id])
    /\ last_op' = "peek" /\ raised' = ""
    /\ UNCHANGED <<vertices, chain, index, pc, segments, intersections, heap, next_id, tree, current_sweep_y,
                   enqueued, dequeued, interleaved, arg>>

QueueNext == CallEnqueue \/ CallDequeue \/ CallPeek

SpecQueue == QueueInit /\ [][QueueNext]_vars

(***************************************************************************)
(* Specification SpecStatus: a StatusStructure driven by arbitrary calls   *)
(***************************************************************************)
StatusLines == {Seg(5, 10, 0, 0), Seg(5, 10, 10, 0), Seg(5, 10, 5, 0), Seg(0, 10, 10, 0)}
StatusYs == {R(10), R(5)}

RECURSIVE Size(_)
Size(node) == IF node = None THEN 0
              ELSE 1 + Size(node.left_child) + Size(node.right_child)

StatusInit ==
    /\ pc = "status"
    /\ segments = <<>>
    /\ intersections = <<>>
    /\ heap = <<>> /\ next_id = 0
    /\ tree = StatusStructure.tree
    /\ current_sweep_y = StatusStructure.current_sweep_y
    /\ QueueIdle
    /\ HullIdle

CallUpdateSweepLine ==
    /\ \E sweep_y \in StatusYs :
          /\ current_sweep_y' =
                update_sweep_line([tree |-> tree, current_sweep_y |-> current_sweep_y],
                                  sweep_y).current_sweep_y
          /\ arg' = sweep_y
    /\ last_op' = "update_sweep_line" /\ ret' = None /\ raised' = ""
    /\ UNCHANGED <<vertices, chain, index, pc, segments, intersections, heap, next_id, tree,
                   enqueued, dequeued, interleaved>>

CallInsert ==
    /\ Size(tree) < MaxNodes
    /\ \E line \in StatusLines :
          /\ tree' = insert([tree |-> tree, current_sweep_y |-> current_sweep_y], line).tree
          /\ ret' = insert_returns([tree |-> tree, current_sweep_y |-> current_sweep_y], line)
          /\ arg' = line
    /\ last_op' = "insert" /\ raised' = ""
    /\ UNCHANGED <<vertices, chain, index, pc, segments, intersections, heap, next_id, current_sweep_y,
                   enqueued, dequeued, interleaved>>

CallDelete ==
    /\ \E line \in StatusLines :
          /\ tree' = delete([tree |-> tree, current_sweep_y |-> current_sweep_y], line).tree
          /\ arg' = line
    /\ last_op' = "delete" /\ ret' = None /\ raised' = ""
    /\ UNCHANGED <<vertices, chain, index, pc, segments, intersections, heap, next_id, current_sweep_y,
                   enqueued, dequeued, interleaved>>

CallFindNeighbors ==
    /\ \E line \in StatusLines :
          /\ ret' = find_neighbors([tree |-> tree, current_sweep_y |-> current_sweep_y], line)
          /\ arg' = line
    /\ last_op' = "find_neighbors" /\ raised' = ""
    /\ UNCHANGED <<vertices, chain, index, pc, segments, intersections, heap, next_id, tree, current_sweep_y,
                   enqueued, dequeued, interleaved>>

StatusNext == CallUpdateSweepLine \/ CallInsert \/ CallDelete \/ CallFindNeighbors

SpecStatus == StatusInit /\ [][StatusNext]_vars

(***************************************************************************)
(* Specification SpecFunctions: one call of a function on drawn arguments  *)
(***************************************************************************)
Call(fn, args) == [fn |-> fn, args |-> args]

LineCalls == {Call("Line", <<a, b>>) : a, b \in GridPoints}

CompareLines == StatusLines \cup {Seg(0, 5, 10, 5)}
CompareYs == {R(10), R(5), R(0)}
CompareCalls == {Call("_compare_segments", <<s1, s2, sweep_y>>) :
                    s1 \in CompareLines, s2 \in CompareLines, sweep_y \in CompareYs}

SlopeCalls == {Call("_get_dx_dy", <<line>>) : line \in GridSegments}

\* the non-degenerate segments of the grid, normalised
NormalSegments == {normalize_line(s) : s \in {l \in GridSegments : l.start # l.end}}
NewEventCalls == {Call("_find_new_event", <<left, right, event>>) :
                     left \in NormalSegments, right \in NormalSegments, event \in GridPoints}

Calls == LineCalls \cup CompareCalls \cup SlopeCalls \cup NewEventCalls

FunctionsInit ==
    /\ pc = "call"
    /\ segments = <<>>
    /\ intersections = <<>>
    /\ heap = <<>> /\ next_id = 0
    /\ tree = None /\ current_sweep_y = Inf
    /\ last_op = "none" /\ ret = None /\ raised = ""
    /\ enqueued = <<>> /\ dequeued = <<>> /\ interleaved = FALSE
    /\ arg \in Calls
    /\ HullIdle

\* Line(a, b) == Line(b, a), the two hashes, and the set of the two
CallLine ==
    /\ pc = "call" /\ arg.fn = "Line"
    /\ LET l1 == Line(arg.args[1], arg.args[2])
           l2 == Line(arg.args[2], arg.args[1])
       IN  ret' = [eq |-> Line_eq(l1, l2),
                   same_hash |-> Line_hash(l1) = Line_hash(l2),
                   set_len |-> set_len(<<l1, l2>>)]
    /\ pc' = "returned" /\ last_op' = arg.fn
    /\ UNCHANGED <<vertices, chain, index, segments, intersections, heap, next_id, tree, current_sweep_y,
                   raised, enqueued, dequeued, interleaved, arg>>

\* StatusStructure._compare_segments(s1, s2) at the sweep height sweep_y
CallCompareSegments ==
    /\ pc = "call" /\ arg.fn = "_compare_segments"
    /\ ret' = compare_segments(arg.args[1], arg.args[2], arg.args[3])
    /\ pc' = "returned" /\ last_op' = arg.fn
    /\ UNCHANGED <<vertices, chain, index, segments, intersections, heap, next_id, tree, current_sweep_y,
                   raised, enqueued, dequeued, interleaved, arg>>

\* _get_dx_dy(line)
CallGetDxDy ==
    /\ pc = "call" /\ arg.fn = "_get_dx_dy"
    /\ ret' = get_dx_dy(arg.args[1])
    /\ pc' = "returned" /\ last_op' = arg.fn
    /\ UNCHANGED <<vertices, chain, index, segments, intersections, heap, next_id, tree, current_sweep_y,
                   raised, enqueued, dequeued, interleaved, arg>>

\* _find_new_event(queue, left_segment, right_segment, event) on an empty queue
CallFindNewEvent ==
    /\ pc = "call" /\ arg.fn = "_find_new_event"
    /\ \E q \in {find_new_event(EventQueue, arg.args[1], arg.args[2], arg.args[3])} :
          heap' = q.heap /\ next_id' = q.next_id
    /\ pc' = "returned" /\ last_op' = arg.fn /\ ret' = None
    /\ UNCHANGED <<vertices, chain, index, segments, intersections, tree, current_sweep_y,
                   raised, enqueued, dequeued, interleaved, arg>>

FunctionsNext == CallLine \/ CallCompareSegments \/ CallGetDxDy \/ CallFindNewEvent

SpecFunctions == FunctionsInit /\ [][FunctionsNext]_vars

(***************************************************************************)
(* Specification SpecHull: one call of _upper_hull or of _lower_hull       *)
(* (cga/convex_hulls/convex_hull.py), one step of its loops at a time      *)
(***************************************************************************)
\* Orientation
LEFT == 1
RIGHT == 2
COLLINEAR == 3

\* test_orientation(AB, P): the sign of the cross product of AB and AP
test_orientation(AB, P) ==
    LET a == AB.start
        b == AB.end
        val == RSub(RMul(RSub(b.x, a.x), RSub(P.y, a.y)),
                    RMul(RSub(b.y, a.y), RSub(P.x, a.x)))
    IN  IF RLt(R(0), val) THEN LEFT
        ELSE IF RLt(val, R(0)) THEN RIGHT
        ELSE COLLINEAR

\* _is_left that lets collinear points stay
is_left_only(hull) ==
    IF Len(hull) < 3 THEN FALSE
    ELSE test_orientation(Line(hull[Len(hull) - 2], hull[Len(hull) - 1]),
                          hull[Len(hull)]) = LEFT

\* _is_left(hull): the last three points make a left turn or are collinear
is_left(hull) ==
    IF Len(hull) < 3 THEN FALSE
    ELSE test_orientation(Line(hull[Len(hull) - 2], hull[Len(hull) - 1]),
                          hull[Len(hull)]) # RIGHT

\* del hull[len(hull) - 2]
del_middle(hull) == SubSeq(hull, 1, Len(hull) - 2) \o <<hull[Len(hull)]>>

\* the points of the calls, and the order convex_hull sorts them in
HullPoints == {Pt(x, y) : x \in 0..2, y \in 0..2}
key_le(p, q) == RLt(p.x, q.x) \/ (p.x = q.x /\ RLe(p.y, q.y))
Sorted(list) == \A k \in 1..(Len(list) - 1) : key_le(list[k], list[k + 1])
SortedLists == UNION {{list \in [1..n -> HullPoints] : Sorted(list)} : n \in 2..MaxPoints}

HullInit ==
    /\ pc = "call"
    /\ segments = <<>>
    /\ intersections = <<>>
    /\ heap = <<>> /\ next_id = 0
    /\ tree = None /\ current_sweep_y = Inf
    /\ last_op = "none" /\ ret = None /\ raised = ""
    /\ enqueued = <<>> /\ dequeued = <<>> /\ interleaved = FALSE
    /\ vertices \in SortedLists
    /\ arg \in {Call(fn, <<vertices>>) : fn \in {"_upper_hull", "_lower_hull"}}
    /\ chain = <<>> /\ index = 0

\* what no step of the two functions changes
HullFrame ==
    UNCHANGED <<segments, intersections, heap, next_id, tree, current_sweep_y,
                raised, enqueued, dequeued, interleaved, arg, vertices>>

\* _upper_hull line 39: upper = [vertices[0], vertices[1]]; the loop starts at 2
UpperBegin ==
    /\ pc = "call" /\ arg.fn = "_upper_hull"
    /\ chain' = <<vertices[1], vertices[2]>>
    /\ index' = 2
    /\ pc' = "for"
    /\ UNCHANGED <<last_op, ret>> /\ HullFrame

\* _upper_hull lines 42-43: the next i of range(2, len(vertices)) is appended
UpperAppend ==
    /\ pc = "for" /\ arg.fn = "_upper_hull"
    /\ index < Len(vertices)
    /\ chain' = Append(chain, vertices[index + 1])
    /\ pc' = "while"
    /\ UNCHANGED <<index, last_op, ret>> /\ HullFrame

\* _upper_hull lines 46-47: one turn of the removal loop
UpperRemove ==
    /\ pc = "while" /\ arg.fn = "_upper_hull"
    /\ is_left(chain)
    /\ chain' = del_middle(chain)
    /\ UNCHANGED <<pc, index, last_op, ret>> /\ HullFrame

\* _upper_hull lines 46, 42: the removal loop ends, the for loop moves on
UpperNext ==
    /\ pc = "while" /\ arg.fn = "_upper_hull"
    /\ ~is_left(chain)
    /\ index' = index + 1
    /\ pc' = "for"
    /\ UNCHANGED <<chain, last_op, ret>> /\ HullFrame

\* _upper_hull line 49: range(2, len(vertices)) is used up; the list the call
\* returns is the chain itself
UpperReturn ==
    /\ pc = "for" /\ arg.fn = "_upper_hull"
    /\ ~(index < Len(vertices))
    /\ pc' = "returned" /\ last_op' = arg.fn
    /\ UNCHANGED <<chain, index, ret>> /\ HullFrame

\* _lower_hull line 56: lower = [vertices[-1], vertices[-2]]; the loop starts
\* at len(vertices) - 3
LowerBegin ==
    /\ pc = "call" /\ arg.fn = "_lower_hull"
    /\ chain' = <<vertices[Len(vertices)], vertices[Len(vertices) - 1]>>
    /\ index' = Len(vertices) - 3
    /\ pc' = "for"
    /\ UNCHANGED <<last_op, ret>> /\ HullFrame

\* _lower_hull lines 59-60: the next i of range(len(vertices) - 3, -1, -1)
LowerAppend ==
    /\ pc = "for" /\ arg.fn = "_lower_hull"
    /\ index > -1
    /\ chain' = Append(chain, vertices[index + 1])
    /\ pc' = "while"
    /\ UNCHANGED <<index, last_op, ret>> /\ HullFrame

\* _lower_hull lines 64-65: one turn of the removal loop
LowerRemove ==
    /\ pc = "while" /\ arg.fn = "_lower_hull"
    /\ is_left(chain)
    /\ chain' = del_middle(chain)
    /\ UNCHANGED <<pc, index, last_op, ret>> /\ HullFrame

\* _lower_hull lines 64, 59: the removal loop ends, the for loop moves on
LowerNext ==
    /\ pc = "while" /\ arg.fn = "_lower_hull"
    /\ ~is_left(chain)
    /\ index' = index - 1
    /\ pc' = "for"
    /\ UNCHANGED <<chain, last_op, ret>> /\ HullFrame

\* _lower_hull line 67: the range is used up; the chain itself is returned
LowerReturn ==
    /\ pc = "for" /\ arg.fn = "_lower_hull"
    /\ ~(index > -1)
    /\ pc' = "returned" /\ last_op' = arg.fn
    /\ UNCHANGED <<chain, index, ret>> /\ HullFrame

HullNext ==
    \/ UpperBegin \/ UpperAppend \/ UpperRemove \/ UpperNext \/ UpperReturn
    \/ LowerBegin \/ LowerAppend \/ LowerRemove \/ LowerNext \/ LowerReturn

SpecHull == HullInit /\ [][HullNext]_vars

\* a step of HullNext can be taken until the call has returned: at "call" the
\* first statement, at "for" the append or the return, at "while" the removal
\* or the end of the removal loop
HullEnabled == pc \in {"call", "for", "while"}
\* every step of HullNext changes the position, the chain or the loop variable
HullTaken == <<pc, chain, index>>' # <<pc, chain, index>>
\* a call runs on: weak fairness of HullNext, WF_vars(HullNext), with its
\* enabling condition and its occurrence written out
HullFair == []<>(~HullEnabled) \/ []<><<HullTaken>>_vars

FairSpecHull == SpecHull /\ HullFair

(***************************************************************************)
(* Reference geometry used to state the properties                         *)
(***************************************************************************)
Cross(o, a, b) ==
    RSub(RMul(RSub(a.x, o.x), RSub(b.y, o.y)), RMul(RSub(a.y, o.y), RSub(b.x, o.x)))

Between(lo, v, hi) == RLe(RMin(lo, hi), v) /\ RLe(v, RMax(lo, hi))

\* p lies on segment s, within its bounds
OnSegment(p, s) ==
    /\ Cross(s.start, s.end, p) = R(0)
    /\ Between(s.start.x, p.x, s.end.x)
    /\ Between(s.start.y, p.y, s.end.y)

\* the point where two non-parallel segments meet within their bounds, or None
TrueIntersection(l1, l2) ==
    LET d1 == Point(RSub(l1.end.x, l1.start.x), RSub(l1.end.y, l1.start.y))
        d2 == Point(RSub(l2.end.x, l2.start.x), RSub(l2.end.y, l2.start.y))
        den == RSub(RMul(d1.x, d2.y), RMul(d1.y, d2.x))
        w == Point(RSub(l2.start.x, l1.start.x), RSub(l2.start.y, l1.start.y))
    IN  IF den = R(0) THEN None
        ELSE LET t == RDiv(RSub(RMul(w.x, d2.y), RMul(w.y, d2.x)), den)
                 p == Point(RAdd(l1.start.x, RMul(t, d1.x)), RAdd(l1.start.y, RMul(t, d1.y)))
             IN  IF OnSegment(p, l1) /\ OnSegment(p, l2) THEN p ELSE None

Normalized(list) == [i \in 1..Len(list) |-> normalize_line(list[i])]

\* the call was made with this list of segments and has returned
ReturnedFor(list) == pc = "done" /\ segments = Normalized(list)

(***************************************************************************)
(* Properties of find_intersections (specification Spec)                   *)
(***************************************************************************)

\* C1: completeness. When find_intersections has returned, for every pair of
\* distinct input segments that meet within their bounds the returned list
\* contains that pair's true intersection point.
C1_Completeness ==
    pc = "done" =>
        \A i, j \in DOMAIN segments :
            (i # j /\ TrueIntersection(segments[i], segments[j]) # None)
                => TrueIntersection(segments[i], segments[j]) \in Range(intersections)

\* C2: soundness. Every point of the returned list lies on at least two
\* distinct input segments, within the bounds of both.
C2_Soundness ==
    pc = "done" =>
        \A k \in DOMAIN intersections :
            \E i, j \in DOMAIN segments :
                /\ segments[i] # segments[j]
                /\ OnSegment(intersections[k], segments[i])
                /\ OnSegment(intersections[k], segments[j])

\* C3: every entry of the returned list is a record that carries the
\* contributing segments together with the point.
C3_EntriesCarrySegments ==
    pc = "done" =>
        \A k \in DOMAIN intersections : "segments" \in DOMAIN intersections[k]

\* C4: for (0,0)-(10,10) and (0,10)-(10,0) the call returns exactly one
\* intersection, the point (5,5).
C4_ProperCrossing ==
    ReturnedFor(CrossingPair) => intersections = <<Pt(5, 5)>>

\* C5: for (5,10)-(0,0) and (5,10)-(10,0), in either list order and whichever
\* of the two is inserted into the status structure first, the call returns
\* exactly one intersection, the point (5,10).
C5_SharedUpperEndpoint ==
    (ReturnedFor(SharedUpperPair) \/ ReturnedFor(Reverse(SharedUpperPair)))
        => intersections = <<Pt(5, 10)>>

C5_Witness ==
    /\ ReturnedFor(Reverse(SharedUpperPair))
    /\ intersections = <<Pt(5, 10)>>
    /\ next_id = 4

\* C6: for (0,5)-(10,5), (5,0)-(5,10) and (0,0)-(10,10) the call reports
\* exactly one point, (5,5), and no other.
C6_ThreeConcurrent ==
    ReturnedFor(ConcurrentTriple) => intersections = <<Pt(5, 5)>>

\* C7: for the vertical (3,0)-(3,10) and the horizontal (0,5)-(10,5) the call
\* reports the point (3,5) and no other point.
C7_VerticalHorizontal ==
    ReturnedFor(VerticalHorizontalPair) => Range(intersections) = {Pt(3, 5)}

(***************************************************************************)
(* Properties of EventQueue (specification SpecQueue)                      *)
(***************************************************************************)
\* sweep priority of points: higher y first, then lower x
PointOutranks(p, q) == RLt(q.y, p.y) \/ (p.y = q.y /\ RLt(p.x, q.x))

\* this step is a dequeue that returned a node
DequeueReturned == Len(dequeued') = Len(dequeued) + 1

Count(seq, v) == Cardinality({i \in DOMAIN seq : seq[i] = v})
PointsOf(nodes) == [i \in DOMAIN nodes |-> nodes[i].point]

FilledThenDrained ==
    /\ ~interleaved /\ heap = <<>> /\ enqueued # <<>>
    /\ Len(dequeued) = Len(enqueued)

\* C8: a dequeue returns an event whose point no event in the queue outranks
\* (higher y first, then lower x); and when a batch of events is enqueued and
\* then fully dequeued, the dequeued points are the enqueued points in
\* non-decreasing sweep priority order, whatever order they were enqueued in.
C8_PriorityOrder ==
    /\ [][DequeueReturned =>
            \A i \in DOMAIN heap : ~PointOutranks(heap[i].point, ret'.point)]_vars
    /\ [](FilledThenDrained =>
            /\ \A i, j \in DOMAIN dequeued :
                  i < j => ~PointOutranks(dequeued[j].point, dequeued[i].point)
            /\ \A p \in QueuePoints :
                  Count(PointsOf(dequeued), p) = Count(PointsOf(enqueued), p))

C8_Witness ==
    /\ FilledThenDrained
    /\ Len(dequeued) >= 4
    /\ PointsOf(dequeued) # PointsOf(enqueued)
    /\ Cardinality(Range(PointsOf(dequeued))) = 3

\* the role order the claim states: UPPER, then INTERIOR, then LOWER
ClaimedRoleRank(e_type) ==
    IF e_type = UPPER THEN 1 ELSE IF e_type = INTERIOR THEN 2 ELSE 3

\* C9 as stated: among the events at one point, dequeue returns UPPER events
\* before INTERIOR events and INTERIOR events before LOWER events, and among
\* events of equal point and role the one enqueued earlier.
C9_RoleOrderAsClaimed ==
    [][DequeueReturned =>
          \A i \in DOMAIN heap :
              (heap[i] # ret' /\ heap[i].point = ret'.point) =>
                  /\ ClaimedRoleRank(ret'.event_type) <= ClaimedRoleRank(heap[i].event_type)
                  /\ heap[i].event_type = ret'.event_type => ret'.id < heap[i].id]_vars

\* C9 amended: among the events at one point, dequeue returns UPPER events
\* before LOWER events and LOWER events before INTERIOR events (the order of
\* the role values 1, 2, 3), and among events of equal point and role the one
\* enqueued earlier.
C9_RoleOrder ==
    [][DequeueReturned =>
          \A i \in DOMAIN heap :
              (heap[i] # ret' /\ heap[i].point = ret'.point) =>
                  /\ ret'.event_type <= heap[i].event_type
                  /\ heap[i].event_type = ret'.event_type => ret'.id < heap[i].id]_vars

C9_Witness ==
    /\ last_op = "dequeue" /\ ret # None /\ ret.event_type = LOWER
    /\ \E i, j \in DOMAIN heap :
          /\ heap[i].point = ret.point /\ heap[i].event_type = INTERIOR
          /\ heap[j].point = ret.point /\ heap[j].event_type = LOWER
          /\ heap[i].id < ret.id

\* C10: dequeue on an empty queue raises IndexError, returns nothing, and
\* leaves the heap and the next sequence id as they were.
C10_DequeueEmpty ==
    [][(last_op' = "dequeue" /\ heap = <<>>) =>
          /\ raised' = "IndexError"
          /\ ret' = None
          /\ heap' = heap
          /\ next_id' = next_id
          /\ dequeued' = dequeued]_vars

C10_Witness ==
    /\ last_op = "dequeue" /\ raised = "IndexError"
    /\ heap = <<>> /\ next_id > 0 /\ Len(dequeued) = next_id

\* C11: peek_point leaves the heap and the next sequence id as they were; on
\* a non-empty queue it returns the point of the event the next dequeue
\* returns, and on an empty queue it returns None and raises nothing.
C11_PeekPoint ==
    [][last_op' = "peek" =>
          /\ heap' = heap
          /\ next_id' = next_id
          /\ raised' = ""
          /\ heap = <<>> => ret' = None
          /\ heap # <<>> =>
                ret' = dequeue([heap |-> heap', next_id |-> next_id']).ret.point]_vars

C11_Witness ==
    /\ last_op = "peek" /\ ret # None
    /\ Len(heap) >= 3 /\ interleaved
    /\ ret # heap[Len(heap)].point
    /\ ret = dequeue([heap |-> heap, next_id |-> next_id]).ret.point

(***************************************************************************)
(* Properties of the sweep's data structures (specification Spec)          *)
(***************************************************************************)
\* the input has no zero-length segment and no segment twice (in either
\* direction)
ProperInput ==
    /\ \A i \in DOMAIN segments : segments[i].start # segments[i].end
    /\ \A i, j \in DOMAIN segments :
          i # j => normalize_line(segments[i]) # normalize_line(segments[j])

SameTriple(a, b) ==
    a.point = b.point /\ a.event_type = b.event_type /\ a.line = b.line

\* C12: during find_intersections the Event Queue never holds two events
\* with the same point, role and segment.
C12_NoDuplicateEvents ==
    (pc = "sweep" /\ ProperInput) =>
        \A i, j \in DOMAIN heap : i # j => ~SameTriple(heap[i], heap[j])

\* an event point has been handled
EventHandled == pc \in {"sweep", "done"} /\ current_sweep_y # Inf

\* the queue still holds this endpoint event of the segment
Pending(line, e_type) ==
    \E i \in DOMAIN heap : heap[i].line = line /\ heap[i].event_type = e_type

\* the input segments that meet the sweep line: the upper endpoint has been
\* handled and the lower endpoint has not
Active == {line \in Range(segments) : ~Pending(line, UPPER) /\ Pending(line, LOWER)}

NoHorizontal == \A i \in DOMAIN segments : segments[i].start.y # segments[i].end.y

RECURSIVE Lines(_)
Lines(node) == IF node = None THEN <<>>
               ELSE Lines(node.left_child) \o <<node.line>> \o Lines(node.right_child)

\* C14: after each event point is handled, the segments the status structure
\* stores are exactly the input segments that meet the sweep line; a segment
\* whose lower endpoint has been handled is no longer stored.
C14_ActiveSet ==
    (EventHandled /\ ProperInput) => Range(Lines(tree)) = Active

\* C15: after each event point is handled, the in-order traversal of the
\* tree lists the stored segments in non-decreasing order of their x on the
\* sweep line.
C15_Ordered ==
    (EventHandled /\ ProperInput /\ NoHorizontal) =>
        \A k \in 1..(Len(Lines(tree)) - 1) :
            RLe(sweep_intersect(Lines(tree)[k], current_sweep_y),
                sweep_intersect(Lines(tree)[k + 1], current_sweep_y))

HasZeroLength == \E i \in DOMAIN segments : segments[i].start = segments[i].end

\* C19: a call whose input holds a zero-length segment is rejected before any
\* event is dequeued or any status operation is done, and returns no list.
C19_ZeroLengthRejected ==
    HasZeroLength => (pc # "done" /\ tree = None /\ current_sweep_y = Inf)

\* this step is the start-up of find_intersections
StartUp == pc = "start" /\ pc' = "sweep"

\* start is the higher endpoint: greater y, or equal y and x not greater
StartIsHigher(line) ==
    \/ RLt(line.end.y, line.start.y)
    \/ line.start.y = line.end.y /\ RLe(line.start.x, line.end.x)

\* C22: the normalised segment has the endpoints of the given one with the
\* higher endpoint as start, and normalising it again changes nothing; the
\* queue filled at start-up holds for every segment one UPPER event at its
\* start and one LOWER event at its end, and no LOWER point outranks the
\* UPPER point of its segment.
C22_Normalized ==
    [][StartUp =>
          /\ \A i \in DOMAIN segments :
                /\ {segments'[i].start, segments'[i].end}
                      = {segments[i].start, segments[i].end}
                /\ Len(segments') = Len(segments)
                /\ StartIsHigher(segments'[i])
                /\ normalize_line(segments'[i]) = segments'[i]
          /\ Len(heap') = 2 * Len(segments)
          /\ \A k \in DOMAIN heap' :
                /\ heap'[k].event_type \in {UPPER, LOWER}
                /\ heap'[k].line \in Range(segments')
                /\ heap'[k].event_type = UPPER => heap'[k].point = heap'[k].line.start
                /\ heap'[k].event_type = LOWER => heap'[k].point = heap'[k].line.end
                /\ ~PointOutranks(heap'[k].line.end, heap'[k].line.start)
          /\ \A i \in DOMAIN segments : \A e_type \in {UPPER, LOWER} :
                \E k \in DOMAIN heap' :
                    heap'[k].line = segments'[i] /\ heap'[k].event_type = e_type]_vars

C22_Witness ==
    /\ pc = "sweep" /\ current_sweep_y = Inf
    /\ Len(segments) = 2 /\ Len(heap) = 4
    /\ segments[1].start.y = segments[1].end.y /\ segments[1].start # segments[1].end
    /\ segments[2].start.x = segments[2].end.x /\ segments[2].start # segments[2].end

\* C23: find_intersections terminates: the queue becomes empty and the
\* call returns.
C23_Terminates == <>(pc = "done" /\ heap = <<>>)

C23_Witness ==
    /\ pc = "done" /\ heap = <<>>
    /\ Len(segments) = 2
    /\ next_id > 2 * Len(segments)

\* C27: the event points are handled in strictly decreasing sweep order
\* (lower y, or equal y and greater x), all events of a point in one step:
\* no dequeued event outranks an earlier one, every event left in the queue
\* lies strictly below the point handled last, and the points of the result
\* list are strictly decreasing in sweep order, so none is there twice.
C27_MonotoneSweep ==
    /\ \A i, j \in DOMAIN dequeued :
          i < j => ~PointOutranks(dequeued[j].point, dequeued[i].point)
    /\ dequeued # <<>> =>
          \A k \in DOMAIN heap : PointOutranks(dequeued[Len(dequeued)].point, heap[k].point)
    /\ \A i, j \in DOMAIN intersections :
          i < j => PointOutranks(intersections[i], intersections[j])

C27_Witness ==
    /\ pc = "done" /\ Len(intersections) >= 2
    /\ next_id > 2 * Len(segments)
    /\ \E i \in DOMAIN dequeued :
          /\ i < Len(dequeued) /\ dequeued[i].point = dequeued[i + 1].point
          /\ dequeued[i].event_type = INTERIOR

\* C28: during find_intersections the status structure never stores one
\* segment in two nodes.
C28_StoredOnce ==
    ProperInput =>
        \A k, l \in DOMAIN Lines(tree) : k # l => Lines(tree)[k] # Lines(tree)[l]

(***************************************************************************)
(* Properties of StatusStructure (specification SpecStatus)                *)
(***************************************************************************)
RECURSIVE Height(_)
Height(node) == IF node = None THEN 0
                ELSE 1 + Max(Height(node.left_child), Height(node.right_child))

RECURSIVE Balanced(_)
Balanced(node) ==
    node # None =>
        /\ Height(node.right_child) - Height(node.left_child) \in {-1, 0, 1}
        /\ Balanced(node.left_child)
        /\ Balanced(node.right_child)

InOrder(node) == Lines(node)

\* C13: after any sequence of insert and delete calls, at any sweep heights,
\* the heights of the two subtrees of every node differ by at most one.
C13_Balanced == Balanced(tree)

C13_Witness ==
    /\ last_op = "delete" /\ current_sweep_y # Inf
    /\ Size(tree) = 3 /\ Height(tree) = 2
    /\ Count(InOrder(tree), arg) = 1

\* the segments the tree stores, left to right
Stored == InOrder(tree)

\* C16: find_neighbors(s), for a segment s the tree stores, returns the
\* segment before and the segment after s's own node in the in-order
\* traversal (None where there is none), and so never s itself.
C16_FindNeighbors ==
    [][(last_op' = "find_neighbors" /\ Count(Stored, arg') = 1) =>
          \E k \in DOMAIN Stored :
              /\ Stored[k] = arg'
              /\ ret'[1] = IF k > 1 THEN Stored[k - 1] ELSE None
              /\ ret'[2] = IF k < Len(Stored) THEN Stored[k + 1] ELSE None]_vars

\* C17: delete(s), for a segment s the tree stores, removes s and nothing
\* else: every other segment is stored as many times as before.
C17_DeleteOnlyThat ==
    [][(last_op' = "delete" /\ Count(Stored, arg') = 1) =>
          \A line \in StatusLines :
              Count(InOrder(tree'), line) =
                  IF line = arg' THEN 0 ELSE Count(Stored, line)]_vars

\* two segments meet the sweep line at the same x (within the tolerance)
Coincide(s1, s2, sweep_y) ==
    isclose(sweep_intersect(s1, sweep_y), sweep_intersect(s2, sweep_y))

\* C18: insert(s) adds s, and returns true exactly when some segment already
\* stored has the same x-coordinate as s on the current sweep line.
C18_InsertReturns ==
    [][last_op' = "insert" =>
          /\ \A line \in StatusLines :
                Count(InOrder(tree'), line) =
                    Count(Stored, line) + IF line = arg' THEN 1 ELSE 0
          /\ ret' = (\E k \in DOMAIN Stored : Coincide(Stored[k], arg', current_sweep_y))]_vars

\* C20: find_neighbors called with a segment the tree does not store raises
\* an error.
C20_AbsentFailsLoudly ==
    [][(last_op' = "find_neighbors" /\ Count(Stored, arg') = 0) => raised' # ""]_vars

(***************************************************************************)
(* Properties of the functions (specification SpecFunctions)               *)
(***************************************************************************)
\* C21: Line(a, b) and Line(b, a) are equal and have the same hash, and a
\* set of the two holds one element.
C21_UndirectedIdentity ==
    (pc = "returned" /\ last_op = "Line") =>
        ret.eq /\ ret.same_hash /\ ret.set_len = 1

Returned(fn) == pc = "returned" /\ last_op = fn

\* C24: for two distinct segments whose x on the sweep line differ, the one
\* with the smaller x compares as left (-1) and the one with the larger x as
\* right (+1), whatever their slopes.
C24_CompareByX ==
    (/\ Returned("_compare_segments")
     /\ arg.args[1] # arg.args[2]
     /\ ~Coincide(arg.args[1], arg.args[2], arg.args[3])) =>
        ret = IF RLt(sweep_intersect(arg.args[1], arg.args[3]),
                     sweep_intersect(arg.args[2], arg.args[3]))
              THEN -1 ELSE 1

\* C25: the slope the comparator uses is infinite for a vertical segment
\* (equal start and end x) and for no other segment.
C25_VerticalInfinite ==
    Returned("_get_dx_dy") =>
        (ret = Inf <=> arg.args[1].start.x = arg.args[1].end.x)

\* C26: _find_new_event enqueues nothing, or exactly two INTERIOR events,
\* one for each of the two segments, at one point that lies on both segments
\* and strictly below the event point in sweep order.
C26_NewEvent ==
    Returned("_find_new_event") =>
        \/ heap = <<>>
        \/ /\ Len(heap) = 2
           /\ \A k \in 1..2 : heap[k].event_type = INTERIOR
           /\ heap[1].point = heap[2].point
           /\ {heap[1].line, heap[2].line} = {arg.args[1], arg.args[2]}
           /\ PointOutranks(arg.args[3], heap[1].point)
           /\ OnSegment(heap[1].point, arg.args[1])
           /\ OnSegment(heap[1].point, arg.args[2])

(***************************************************************************)
(* Properties of the hull chains (specification FairSpecHull)              *)
(***************************************************************************)
\* the chain a call returned: from one extreme point of the sorted list to
\* the other, made of input points, a strict right turn at every point
ChainOk ==
    pc = "returned" =>
        /\ last_op = "_upper_hull" =>
               chain[1] = vertices[1] /\ chain[Len(chain)] = vertices[Len(vertices)]
        /\ last_op = "_lower_hull" =>
               chain[1] = vertices[Len(vertices)] /\ chain[Len(chain)] = vertices[1]
        /\ Range(chain) \subseteq Range(vertices)
        /\ \A k \in 1..(Len(chain) - 2) :
               test_orientation(Line(chain[k], chain[k + 1]), chain[k + 2]) = RIGHT

\* a turn of the removal loop makes the chain shorter and leaves it at least
\* two points long
RemovalShortens ==
    (pc = "while" /\ is_left(chain)) =>
        /\ Len(del_middle(chain)) < Len(chain)
        /\ Len(del_middle(chain)) >= 2

\* C29: for a list of at least two points sorted by (x, y), the chain that
\* _upper_hull (and _lower_hull) returns starts and ends at the extreme
\* points of the list, contains only input points, and turns strictly right
\* at every three consecutive points; the removal loop always ends (each of
\* its turns shortens the chain, and the loop is left), and so does the call.
C29_MonotoneChain ==
    /\ []ChainOk
    /\ []RemovalShortens
    /\ (pc = "while") ~> (pc = "for")
    /\ <>(pc = "returned")

\* a chain of at least three points was returned, and a point of the list
\* that lay on one of its edges, between the edge's ends, is not in it
C29_Witness ==
    /\ pc = "returned" /\ Len(chain) >= 3
    /\ \E k \in DOMAIN vertices, j \in 1..(Len(chain) - 1) :
          /\ vertices[k] \notin Range(chain)
          /\ test_orientation(Line(chain[j], chain[j + 1]), vertices[k]) = COLLINEAR
          /\ \/ key_le(chain[j], vertices[k]) /\ key_le(vertices[k], chain[j + 1])
             \/ key_le(chain[j + 1], vertices[k]) /\ key_le(vertices[k], chain[j])

====
